---------------------------- MODULE Spec2Model ----------------------------
(***************************************************************************)
(* A model of the todo command line program (src/src/main.rs).             *)
(*                                                                         *)
(* The persistent state is the backing file, a sequence of characters.     *)
(* One step of the model is one invocation of the program: main() from     *)
(* argument resolution to its return (or panic).  The remaining variables  *)
(* record that invocation: its arguments, the fault the environment        *)
(* injected, the exit taken, the in-memory store at exit, both output      *)
(* streams, the file as it was when the invocation started and the file    *)
(* operations the invocation performed, in order.  When the process is     *)
(* gone only the file is left, and the next invocation starts from it.     *)
(***************************************************************************)
EXTENDS Integers, Sequences, FiniteSets, TLC

VARIABLES file, word, operands, env, outcome, todos, stdout, stderr, before, fileops

vars == <<file, word, operands, env, outcome, todos, stdout, stderr, before, fileops>>

(***************************************************************************)
(* Bounds of the model.                                                    *)
(***************************************************************************)
\* Longest store: initial files hold at most MaxItems items and add is not
\* taken beyond it.
MaxItems == 2
\* Most operands (names or ids) after the command word.
MaxArgs == 2

(***************************************************************************)
(* Characters.  A text is a sequence of one-character strings; LF and CR   *)
(* stand for the line feed and the carriage return.                        *)
(***************************************************************************)
LF == "LF"
CR == "CR"

Digits == <<"0", "1", "2", "3", "4", "5", "6", "7", "8", "9">>

IsDigit(c) == \E i \in 1..Len(Digits) : Digits[i] = c

DigitVal(c) == (CHOOSE i \in 1..Len(Digits) : Digits[i] = c) - 1

\* The decimal numeral of n (what a user types for the id n).
RECURSIVE Numeral(_)
Numeral(n) == IF n < 10 THEN <<Digits[n + 1]>>
              ELSE Numeral(n \div 10) \o <<Digits[(n % 10) + 1]>>

NoWord == "<none>"

(***************************************************************************)
(* struct TodoItem                                                         *)
(***************************************************************************)
TodoItem(name, done) == [name |-> name, done |-> done]

(***************************************************************************)
(* wirte_todos_to_file: one formatted line per item, "- [X] name\n" or     *)
(* "- [ ] name\n", the name written as it is.                              *)
(***************************************************************************)
FormatItem(todo) ==
    <<"-", " ", "[", (IF todo.done THEN "X" ELSE " "), "]", " ">> \o todo.name \o <<LF>>

RECURSIVE Serialize(_)
Serialize(items) ==
    IF items = <<>> THEN <<>>
    ELSE FormatItem(Head(items)) \o Serialize(Tail(items))

(***************************************************************************)
(* BufReader::lines(): the text is cut after each LF; the LF and one CR    *)
(* right before it are dropped.  A last line without LF is kept as it is.  *)
(***************************************************************************)
\* The first place at or after i where s holds c, 0 if there is none.
RECURSIVE IndexFrom(_, _, _)
IndexFrom(s, c, i) ==
    IF i > Len(s) THEN 0
    ELSE IF s[i] = c THEN i
    ELSE IndexFrom(s, c, i + 1)

IndexOf(s, c) == IndexFrom(s, c, 1)

StripEol(buf) ==
    IF buf # <<>> /\ buf[Len(buf)] = LF
    THEN LET b == SubSeq(buf, 1, Len(buf) - 1)
         IN  IF b # <<>> /\ b[Len(b)] = CR THEN SubSeq(b, 1, Len(b) - 1) ELSE b
    ELSE buf

RECURSIVE Lines(_)
Lines(s) ==
    IF s = <<>> THEN <<>>
    ELSE LET i == IndexOf(s, LF)
             n == IF i = 0 THEN Len(s) ELSE i
         IN  <<StripEol(SubSeq(s, 1, n))>> \o Lines(SubSeq(s, n + 1, Len(s)))

(***************************************************************************)
(* The regex of parse_todos and Regex::captures: the leftmost place of the *)
(* line where "- [", a marker (space or X) and "] " stand; the search is   *)
(* not anchored.  Group 1 is the marker, group 2 the text after "] " up to *)
(* a line feed.                                                            *)
(***************************************************************************)
MatchesAt(line, i) ==
    /\ i + 5 <= Len(line)
    /\ line[i] = "-"
    /\ line[i + 1] = " "
    /\ line[i + 2] = "["
    /\ line[i + 3] \in {" ", "X"}
    /\ line[i + 4] = "]"
    /\ line[i + 5] = " "

\* The search from the place i on: the first place with a match, 0 if none.
RECURSIVE MatchFrom(_, _)
MatchFrom(line, i) ==
    IF i > Len(line) THEN 0
    ELSE IF MatchesAt(line, i) THEN i
    ELSE MatchFrom(line, i + 1)

MatchStart(line) == MatchFrom(line, 1)

\* Group 2, dot-star: the dot matches every character but the line feed.
DotStar(s) ==
    LET i == IndexOf(s, LF) IN IF i = 0 THEN s ELSE SubSeq(s, 1, i - 1)

\* The closure of parse_todos applied to one line.
ParseLine(line) ==
    LET i == MatchStart(line)
    IN  IF i = 0
        THEN [err |-> "InvalidSyntax", line |-> line]
        ELSE [err |-> "",
              item |-> TodoItem(DotStar(SubSeq(line, i + 6, Len(line))),
                                line[i + 3] = "X")]

\* collect() into a Result: the items of all lines, or the first error.
RECURSIVE CollectItems(_)
CollectItems(lines) ==
    IF lines = <<>> THEN [err |-> "", todos |-> <<>>]
    ELSE LET r == ParseLine(Head(lines))
         IN  IF r.err # "" THEN [err |-> r.err, line |-> r.line, todos |-> <<>>]
             ELSE LET rest == CollectItems(Tail(lines))
                  IN  IF rest.err # "" THEN rest
                      ELSE [err |-> "", todos |-> <<r.item>> \o rest.todos]

\* parse_todos; readFails: the reader returns an error on its first read.
parse_todos(content, readFails) ==
    IF readFails THEN [err |-> "IoError", todos |-> <<>>]
    ELSE CollectItems(Lines(content))

(***************************************************************************)
(* print_todos: one line per item, numbered from 1; the last field tells   *)
(* whether the name is struck through.                                     *)
(***************************************************************************)
print_todos(items) ==
    [i \in 1..Len(items) |-> <<"item", i, items[i].name, items[i].done>>]

(***************************************************************************)
(* main, lines 56-74: the command of the first argument, LIST without one. *)
(***************************************************************************)
\* str::to_lowercase on the command words the model uses.
ToLowercase(w) ==
    CASE w = "LIST" -> "list"
      [] w = "Add" -> "add"
      [] w = "HELP" -> "help"
      [] OTHER -> w

ResolveCommand(w) ==
    IF w = NoWord THEN "LIST"
    ELSE LET l == ToLowercase(w)
         IN  CASE l = "add" -> "ADD"
               [] l = "list" -> "LIST"
               [] l = "done" -> "DONE"
               [] l = "undo" -> "UNDO"
               [] l = "remove" -> "REMOVE"
               [] l \in {"help", "-h", "--help"} -> "HELP"
               [] OTHER -> "INVALID"

(***************************************************************************)
(* main, lines 141-169: every id argument is parsed and checked in         *)
(* argument order; the first error ends the collection.                    *)
(***************************************************************************)
RECURSIVE DecValue(_)
DecValue(s) ==
    IF s = <<>> THEN 0
    ELSE DecValue(SubSeq(s, 1, Len(s) - 1)) * 10 + DigitVal(s[Len(s)])

\* str::parse::<usize>: an optional "+", then one digit or more.  The
\* tokens of the model are far too short to overflow 64 bits.
ParseUsize(tok) ==
    LET body == IF tok # <<>> /\ tok[1] = "+" THEN Tail(tok) ELSE tok
    IN  IF body = <<>> \/ \E i \in 1..Len(body) : ~IsDigit(body[i])
        THEN [ok |-> FALSE, val |-> 0]
        ELSE [ok |-> TRUE, val |-> DecValue(body)]

\* The range check with the comparison off by one: the id of the last item
\* is taken for out of range.
IdRejectedAtLength(x, len) == x >= len

\* line 149: the only range check an id gets.
IdRejected(x, len) == x > len

\* The collection as a filter: an argument that is no number or is out of
\* range is skipped and the remaining ids are used.
RECURSIVE ParseIdsSkipping(_, _)
ParseIdsSkipping(args, len) ==
    IF args = <<>> THEN [err |-> "", id |-> 0, ids |-> <<>>]
    ELSE LET p == ParseUsize(Head(args))
             rest == ParseIdsSkipping(Tail(args), len)
         IN  IF ~p.ok \/ p.val > len THEN rest
             ELSE [err |-> "", id |-> 0, ids |-> <<p.val>> \o rest.ids]

RECURSIVE ParseIds(_, _)
ParseIds(args, len) ==
    IF args = <<>> THEN [err |-> "", id |-> 0, ids |-> <<>>]
    ELSE LET p == ParseUsize(Head(args))
         IN  IF ~p.ok THEN [err |-> "ParseError", id |-> 0, ids |-> <<>>]
             ELSE IF IdRejected(p.val, len)
                  THEN [err |-> "InvalidId", id |-> p.val, ids |-> <<>>]
             ELSE LET rest == ParseIds(Tail(args), len)
                  IN  IF rest.err # "" THEN rest
                      ELSE [err |-> "", id |-> 0, ids |-> <<p.val>> \o rest.ids]

(***************************************************************************)
(* main, lines 171-190: the ids are sorted descending, adjacent duplicates *)
(* dropped, and the command applied to each id in that order.              *)
(***************************************************************************)
RECURSIVE SortDesc(_)
SortDesc(ids) ==
    IF ids = <<>> THEN <<>>
    ELSE LET i == CHOOSE k \in 1..Len(ids) : \A j \in 1..Len(ids) : ids[k] >= ids[j]
         IN  <<ids[i]>> \o SortDesc(SubSeq(ids, 1, i - 1) \o SubSeq(ids, i + 1, Len(ids)))

\* Vec::dedup: of equal neighbours the first is kept.
RECURSIVE Dedup(_)
Dedup(ids) ==
    IF Len(ids) < 2 THEN ids
    ELSE IF ids[1] = ids[2] THEN Dedup(Tail(ids))
    ELSE <<ids[1]>> \o Dedup(Tail(ids))

\* The loop without the sort: the ids in argument order.
ProcessingOrderUnsorted(ids) == Dedup(ids)

\* The order in which the loop of line 175 visits the ids.
ProcessingOrder(ids) == Dedup(SortDesc(ids))

\* One arm of the match of lines 176-189, for an index that is in the store.
ApplyOne(command, id, items) ==
    CASE command = "DONE" -> [items EXCEPT ![id].done = TRUE]
      [] command = "UNDO" -> [items EXCEPT ![id].done = FALSE]
      [] command = "REMOVE" -> SubSeq(items, 1, id - 1) \o SubSeq(items, id + 1, Len(items))

\* The loop.  todos[id - 1] and todos.remove(id - 1) panic when id - 1 is
\* no index of the store; for id = 0 the subtraction itself panics in a
\* debug build and wraps to usize::MAX, no index either, in a release build.
RECURSIVE ApplyIds(_, _, _)
ApplyIds(command, ids, items) ==
    IF ids = <<>> THEN [panic |-> FALSE, todos |-> items]
    ELSE LET id == Head(ids)
         IN  IF id < 1 \/ id > Len(items)
             THEN [panic |-> TRUE, todos |-> items]
             ELSE ApplyIds(command, Tail(ids), ApplyOne(command, id, items))

(***************************************************************************)
(* main, lines 129-134: one new item per name, not done, at the end.       *)
(***************************************************************************)
\* The new items put in front of the store instead of at its end.
PushAllInFront(items, names) ==
    [i \in 1..Len(names) |-> TodoItem(names[i], FALSE)] \o items

RECURSIVE PushAll(_, _)
PushAll(items, names) ==
    IF names = <<>> THEN items
    ELSE PushAll(Append(items, TodoItem(Head(names), FALSE)), Tail(names))

(***************************************************************************)
(* The environment of one invocation.                                      *)
(*   ok       every file operation succeeds                                *)
(*   noopen   the file cannot be opened for reading (missing, unreadable)  *)
(*   ioerr    the file opens and reading it fails                          *)
(*   nowrite  the file cannot be opened for writing (read-only)            *)
(*   wfail    the file is truncated and a later write fails                *)
(***************************************************************************)
Envs == {"ok", "noopen", "ioerr", "nowrite", "wfail"}

(***************************************************************************)
(* wirte_todos_to_file with its environment: the results it can have, each *)
(* the error flag, the content the file is left with and the operations    *)
(* performed.  A write that fails leaves the items written before it; a    *)
(* failure in the middle of one item is not told apart from a failure      *)
(* before that item.  With no item to write nothing can fail after the     *)
(* open.                                                                   *)
(***************************************************************************)
wirte_todos_to_file(e, content, items) ==
    IF e = "nowrite"
    THEN {[err |-> TRUE, content |-> content, ops |-> <<"open_write">>]}
    ELSE IF e = "wfail" /\ items # <<>>
    THEN {[err |-> TRUE,
           content |-> Serialize(SubSeq(items, 1, k)),
           ops |-> <<"open_write", "truncate", "write">>] : k \in 0..(Len(items) - 1)}
    ELSE {[err |-> FALSE,
           content |-> Serialize(items),
           ops |-> <<"open_write", "truncate", "write">>]}

(***************************************************************************)
(* main.  Exit gives the state main leaves behind at one of its returns.   *)
(***************************************************************************)
Exit(oc, items, so, se, content, ops) ==
    /\ outcome' = oc
    /\ todos' = items
    /\ stdout' = so
    /\ stderr' = se
    /\ file' = content
    /\ fileops' = ops

\* lines 195-199: write the store back and, if that went well, print it.
WriteBack(e, items) ==
    \E r \in wirte_todos_to_file(e, file, items) :
        IF r.err
        THEN Exit("write_error", items, <<>>, <<<<"Error writing to file">>>>,
                  r.content, <<"open_read", "read">> \o r.ops)
        ELSE Exit("ok", items, print_todos(items), <<>>,
                  r.content, <<"open_read", "read">> \o r.ops)

\* lines 136-191: done, undo and remove.
RunIds(command, ops, e, items) ==
    IF Len(ops) = 0
    THEN Exit("no_ids", items, <<>>, <<<<"No item ids given">>>>, file,
              <<"open_read", "read">>)
    ELSE LET r == ParseIds(ops, Len(items))
         IN  IF r.err = "ParseError"
             THEN Exit("id_parse_error", items, <<>>, <<<<"Error parsing id">>>>, file,
                       <<"open_read", "read">>)
             ELSE IF r.err = "InvalidId"
             THEN Exit("invalid_id", items, <<<<"Invalid id", r.id>>>>,
                       <<<<"dbg", items>>>>, file, <<"open_read", "read">>)
             ELSE LET a == ApplyIds(command, ProcessingOrder(r.ids), items)
                  IN  IF a.panic
                      THEN Exit("panic", a.todos, <<>>, <<<<"panicked">>>>, file,
                                <<"open_read", "read">>)
                      ELSE WriteBack(e, a.todos)

\* add without its operand check: the store is written back as loaded.
RunAddUnchecked(ops, e, items) == WriteBack(e, PushAll(items, ops))

\* lines 124-135: add.
RunAdd(ops, e, items) ==
    IF Len(ops) = 0
    THEN Exit("no_items", items, <<>>, <<<<"No items to add">>>>, file,
              <<"open_read", "read">>)
    ELSE WriteBack(e, PushAll(items, ops))

\* lines 53-200: w is the command word (NoWord: none given), ops the
\* arguments after it, e the environment.
Main(w, ops, e) ==
    /\ word' = w
    /\ operands' = ops
    /\ env' = e
    /\ before' = file
    /\ LET command == ResolveCommand(w)
       IN  IF command = "INVALID"
           THEN Exit("invalid_command", <<>>, <<>>, <<<<"invalid command", w>>>>, file, <<>>)
           ELSE IF command = "HELP"
           THEN Exit("help", <<>>, <<<<"usage">>>>, <<>>, file, <<>>)
           ELSE IF e = "noopen"
           THEN Exit("open_error", <<>>, <<>>, <<<<"Error opening file">>>>, file,
                     <<"open_read">>)
           ELSE LET parsed == parse_todos(file, e = "ioerr")
                IN  IF parsed.err = "IoError"
                    THEN Exit("io_error", <<>>, <<>>, <<<<"Error reading file">>>>, file,
                              <<"open_read", "read">>)
                    ELSE IF parsed.err = "InvalidSyntax"
                    THEN Exit("syntax_error", <<>>, <<>>,
                              <<<<"Invalid syntax detected", parsed.line>>>>, file,
                              <<"open_read", "read">>)
                    ELSE IF command = "LIST"
                    THEN Exit("listed", parsed.todos, print_todos(parsed.todos), <<>>,
                              file, <<"open_read", "read">>)
                    ELSE IF command = "ADD"
                    THEN RunAdd(ops, e, parsed.todos)
                    ELSE RunIds(command, ops, e, parsed.todos)

(***************************************************************************)
(* The inputs of the model.                                                *)
(***************************************************************************)
\* All sequences over S of the lengths lo..hi.
SeqsOf(S, lo, hi) == UNION {[1..n -> S] : n \in lo..hi}

PlainNames == {<<"a">>, <<"b">>}

\* Names a shell can pass as well: empty, ending in a carriage return,
\* holding a line feed, holding the text of a done item.
AnyNames ==
    PlainNames \cup {<<>>, <<"a", CR>>, <<"a", LF, "b">>,
                     <<"-", " ", "[", "X", "]", " ", "a">>}

\* Id arguments: the numerals 0..MaxItems (on every store but the longest
\* one of them is greater than its length) and a word that is no number.
PlainIdArgs == {Numeral(i) : i \in 0..MaxItems} \cup {<<"x">>}

AnyIdArgs == PlainIdArgs \cup {<<>>, <<"+", "1">>, <<"-", "1">>}

\* The files written from the stores of at most MaxItems plain items.
PlainFiles ==
    {Serialize(s) : s \in SeqsOf({TodoItem(n, d) : n \in PlainNames, d \in BOOLEAN},
                                 0, MaxItems)}

\* A file with a line that is no item.
NotATodoFile == <<"a", LF>>

\* Files edited by hand: text before the "- [", Windows line ends, no line
\* end after the last item, an empty line.
EditedFiles ==
    {<<"b">> \o FormatItem(TodoItem(<<"a">>, TRUE)),
     <<"-", " ", "[", " ", "]", " ", "a", CR, LF>>,
     <<"-", " ", "[", "X", "]", " ", "a">>,
     <<LF>>}

(***************************************************************************)
(* The invocations.  Every action is one run of main, started when no      *)
(* process is running.                                                     *)
(***************************************************************************)
Help ==
    /\ outcome = "none"
    /\ \E w \in {"help", "-h", "--help", "HELP"}, e \in Envs : Main(w, <<>>, e)

InvalidCommand ==
    /\ outcome = "none"
    /\ \E e \in Envs : Main("bogus", <<>>, e)

List ==
    /\ outcome = "none"
    /\ \E w \in {NoWord, "list", "LIST"}, e \in Envs : Main(w, <<>>, e)

\* add is not taken when it would make the file longer than MaxItems lines.
Add(names) ==
    /\ outcome = "none"
    /\ LET room == MaxItems - Len(Lines(file))
       IN  \E w \in {"add", "Add"}, ops \in SeqsOf(names, 0, MaxArgs), e \in Envs :
               /\ Len(ops) <= room
               /\ Main(w, ops, e)

Done(ids) ==
    /\ outcome = "none"
    /\ \E ops \in SeqsOf(ids, 0, MaxArgs), e \in Envs : Main("done", ops, e)

Undo(ids) ==
    /\ outcome = "none"
    /\ \E ops \in SeqsOf(ids, 0, MaxArgs), e \in Envs : Main("undo", ops, e)

Remove(ids) ==
    /\ outcome = "none"
    /\ \E ops \in SeqsOf(ids, 0, MaxArgs), e \in Envs : Main("remove", ops, e)

\* No process: nothing of an invocation is in memory.
NoRun ==
    /\ word = NoWord
    /\ operands = <<>>
    /\ env = "ok"
    /\ outcome = "none"
    /\ todos = <<>>
    /\ stdout = <<>>
    /\ stderr = <<>>
    /\ before = file
    /\ fileops = <<>>

\* The process ends; its store and its output go, the file stays.
Terminate ==
    /\ outcome # "none"
    /\ UNCHANGED file
    /\ word' = NoWord
    /\ operands' = <<>>
    /\ env' = "ok"
    /\ outcome' = "none"
    /\ todos' = <<>>
    /\ stdout' = <<>>
    /\ stderr' = <<>>
    /\ before' = file
    /\ fileops' = <<>>

Init == file \in PlainFiles \cup {NotATodoFile} /\ NoRun

Next ==
    \/ Help
    \/ InvalidCommand
    \/ List
    \/ Add(PlainNames)
    \/ Done(PlainIdArgs)
    \/ Undo(PlainIdArgs)
    \/ Remove(PlainIdArgs)
    \/ Terminate

Spec == Init /\ [][Next]_vars

\* The same program with every name and id argument and with edited files.
InitAny == file \in PlainFiles \cup {NotATodoFile} \cup EditedFiles /\ NoRun

NextAny ==
    \/ Help
    \/ InvalidCommand
    \/ List
    \/ Add(AnyNames)
    \/ Done(AnyIdArgs)
    \/ Undo(AnyIdArgs)
    \/ Remove(AnyIdArgs)
    \/ Terminate

SpecAny == InitAny /\ [][NextAny]_vars

\* The program with plain arguments and, for add, a name of two lines.
MultilineNames == PlainNames \cup {<<"a", LF, "b">>}

NextMultiline ==
    \/ Help
    \/ InvalidCommand
    \/ List
    \/ Add(MultilineNames)
    \/ Done(PlainIdArgs)
    \/ Undo(PlainIdArgs)
    \/ Remove(PlainIdArgs)
    \/ Terminate

SpecMultiline == Init /\ [][NextMultiline]_vars

(***************************************************************************)
(* Vocabulary of the properties.  These definitions describe an invocation *)
(* from outside: by the arguments given, the file as it was and what the   *)
(* run left behind.                                                        *)
(***************************************************************************)
Ran == outcome # "none"

Command == ResolveCommand(word)

\* The run got as far as holding the parsed store in memory.
StoreLoaded ==
    /\ Ran
    /\ Command \notin {"INVALID", "HELP"}
    /\ env \notin {"noopen", "ioerr"}
    /\ parse_todos(before, FALSE).err = ""

\* The store the run started from, and its length N.
Loaded == parse_todos(before, FALSE).todos

N == Len(Loaded)

\* A plain decimal numeral, and the number it denotes (the numerals among
\* the id arguments are those of 0..MaxItems).
IsNumeral(tok) == tok # <<>> /\ \A i \in 1..Len(tok) : IsDigit(tok[i])

ValueOf(tok) == CHOOSE v \in 0..MaxItems : Numeral(v) = tok

\* An argument no reading makes a number: empty, or with a character that
\* is neither a digit nor a sign.
NonNumeric(tok) ==
    \/ tok = <<>>
    \/ \E i \in 1..Len(tok) : ~IsDigit(tok[i]) /\ tok[i] \notin {"+", "-"}

AllNumerals == \A i \in 1..Len(operands) : IsNumeral(operands[i])

\* The numbers the id arguments denote.
IdSet == {ValueOf(operands[i]) : i \in {j \in 1..Len(operands) : IsNumeral(operands[j])}}

\* Ids were given and every one is the numeral of a position of the store.
AllIdsValid ==
    /\ operands # <<>>
    /\ AllNumerals
    /\ LET n == N IN \A v \in IdSet : v \in 1..n

\* The items of a sequence at the positions in P, in their order.
RECURSIVE AtPositions(_, _, _)
AtPositions(items, P, from) ==
    IF from > Len(items) THEN <<>>
    ELSE (IF from \in P THEN <<items[from]>> ELSE <<>>) \o AtPositions(items, P, from + 1)

WriteOps == {"open_write", "truncate", "write"}

FileUntouchedByWrite ==
    /\ file = before
    /\ \A i \in 1..Len(fileops) : fileops[i] \notin WriteOps

HasLF(name) == \E i \in 1..Len(name) : name[i] = LF

\* The list is on the standard stream: one line per item of the store.
ListPrinted == stdout = print_todos(todos) /\ \A i \in 1..Len(stdout) : stdout[i][1] = "item"

Failures ==
    {"invalid_command", "open_error", "io_error", "syntax_error", "no_items",
     "no_ids", "id_parse_error", "invalid_id", "panic", "write_error"}

(***************************************************************************)
(* The claims.                                                             *)
(***************************************************************************)

\* C1: done, undo or remove with numeral ids of which one is 0 or greater
\* than N fails with InvalidId naming such a value, leaves the store as
\* loaded and leaves the file as it was.
C1_OutOfRangeIdIsInvalidId ==
    (/\ StoreLoaded
     /\ Command \in {"DONE", "UNDO", "REMOVE"}
     /\ operands # <<>>
     /\ AllNumerals
     /\ \E v \in IdSet : v = 0 \/ v > N)
    => (/\ outcome = "invalid_id"
        /\ \E v \in IdSet : (v = 0 \/ v > N) /\ stdout = <<<<"Invalid id", v>>>>
        /\ todos = Loaded
        /\ FileUntouchedByWrite)

\* C2: a store whose names hold no line feed, once written by
\* wirte_todos_to_file, is read back by parse_todos without error and as the
\* same sequence of items.
C2_RoundTrip ==
    (/\ outcome = "ok"
     /\ \A i \in 1..Len(todos) : ~HasLF(todos[i].name))
    => (/\ file = Serialize(todos)
        /\ parse_todos(file, FALSE).err = ""
        /\ parse_todos(file, FALSE).todos = todos)

\* C3: remove with ids all within 1..N leaves the loaded store without the
\* items at the positions given, the others in their order, whatever the
\* order and the repetitions of the ids; the file is written from it.
C3_RemoveExactlyReferenced ==
    (/\ StoreLoaded
     /\ Command = "REMOVE"
     /\ AllIdsValid)
    => LET loaded == Loaded
       IN  /\ outcome \in {"ok", "write_error"}
           /\ todos = AtPositions(loaded, (1..Len(loaded)) \ IdSet, 1)
           /\ (env = "ok" => outcome = "ok")
           /\ (outcome = "ok" => file = Serialize(todos))

\* C3 witness: remove of two different ids given in ascending order, with
\* both items gone.
C3_Witness ==
    /\ StoreLoaded
    /\ Command = "REMOVE"
    /\ AllIdsValid
    /\ Len(operands) = 2
    /\ ValueOf(operands[1]) < ValueOf(operands[2])
    /\ outcome = "ok"
    /\ Len(todos) = N - 2

\* C4: a list run, and a run of any command whose operands are missing or
\* hold an id that is no number or is out of range, leaves the file as it
\* was and performs no open for writing, truncate or write; so does every
\* run that ends at a validation failure.
C4_NoWriteOnListOrValidationFailure ==
    (/\ Ran
     /\ \/ Command = "LIST"
        \/ Command \in {"ADD", "DONE", "UNDO", "REMOVE"} /\ operands = <<>>
        \/ /\ Command \in {"DONE", "UNDO", "REMOVE"}
           /\ LET n == N
              IN  \E i \in 1..Len(operands) :
                      \/ NonNumeric(operands[i])
                      \/ IsNumeral(operands[i]) /\ ValueOf(operands[i]) \notin 1..n
        \/ outcome \in {"listed", "no_items", "no_ids", "id_parse_error", "invalid_id"})
    => FileUntouchedByWrite

\* C4 witness: a validation failure at the second id after a valid first
\* one that names an item the command would have changed.
C4_Witness ==
    /\ StoreLoaded
    /\ Command = "DONE"
    /\ Len(operands) = 2
    /\ IsNumeral(operands[1])
    /\ ValueOf(operands[1]) \in 1..N
    /\ ~Loaded[ValueOf(operands[1])].done
    /\ NonNumeric(operands[2])
    /\ outcome = "id_parse_error"

\* C5: a file is parsed iff every line starts with "- [", a marker and
\* "] "; otherwise the run ends with the syntax error that carries the
\* first line of another form, and holds no item.
C5_ParseAcceptsExactlyTheGrammar ==
    (/\ Ran
     /\ Command \notin {"INVALID", "HELP"}
     /\ env \notin {"noopen", "ioerr"})
    => LET lines == Lines(before)
           bad == {i \in 1..Len(lines) : ~MatchesAt(lines[i], 1)}
       IN  IF bad = {}
           THEN outcome # "syntax_error"
           ELSE /\ outcome = "syntax_error"
                /\ \E i \in bad :
                       /\ \A j \in bad : i <= j
                       /\ stderr = <<<<"Invalid syntax detected", lines[i]>>>>
                /\ todos = <<>>

\* C6: add, done, undo or remove without operands reports the missing
\* operands and performs no file operation at all.
C6_MissingOperandsBeforeFile ==
    (/\ Ran
     /\ Command \in {"ADD", "DONE", "UNDO", "REMOVE"}
     /\ operands = <<>>)
    => (/\ outcome = (IF Command = "ADD" THEN "no_items" ELSE "no_ids")
        /\ fileops = <<>>)

\* C6 as the code has it: add, done, undo or remove without operands opens
\* and reads the file first; the missing operands are reported when the
\* file was opened, read and parsed, the open, read or syntax error
\* otherwise; the file is read only and stays as it was.
C6_MissingOperandsAfterLoad ==
    (/\ Ran
     /\ Command \in {"ADD", "DONE", "UNDO", "REMOVE"}
     /\ operands = <<>>)
    => (/\ outcome = (IF env = "noopen" THEN "open_error"
                      ELSE IF env = "ioerr" THEN "io_error"
                      ELSE IF LET lines == Lines(before)
                              IN  \E i \in 1..Len(lines) : MatchStart(lines[i]) = 0
                           THEN "syntax_error"
                      ELSE IF Command = "ADD" THEN "no_items" ELSE "no_ids")
        /\ fileops = (IF env = "noopen" THEN <<"open_read">> ELSE <<"open_read", "read">>)
        /\ stderr # <<>>
        /\ stdout = <<>>
        /\ FileUntouchedByWrite)

\* C6 witness: add without operands on a file that is no todo list ends
\* with the syntax error, not with the missing operands.
C6_Witness ==
    /\ Ran
    /\ Command = "ADD"
    /\ operands = <<>>
    /\ env = "ok"
    /\ before = NotATodoFile
    /\ outcome = "syntax_error"
    /\ fileops = <<"open_read", "read">>

\* C7: add with k >= 1 names on the loaded N-item store leaves N+k items,
\* the first N as loaded, item N+j named by the j-th argument and not
\* done; the file is written from this store.
C7_AddAppends ==
    (/\ StoreLoaded
     /\ Command = "ADD"
     /\ operands # <<>>)
    => LET loaded == Loaded
           n == Len(loaded)
       IN  /\ outcome \in {"ok", "write_error"}
           /\ Len(todos) = n + Len(operands)
           /\ SubSeq(todos, 1, n) = loaded
           /\ \A j \in 1..Len(operands) :
                  todos[n + j] = [name |-> operands[j], done |-> FALSE]
           /\ (env = "ok" => outcome = "ok")
           /\ (outcome = "ok" => file = Serialize(todos))

\* C7 witness: a name added to a store that holds a done item, and written.
C7_Witness ==
    /\ StoreLoaded
    /\ Command = "ADD"
    /\ operands = <<<<"b">>>>
    /\ N >= 1
    /\ Loaded[1].done
    /\ outcome = "ok"
    /\ Len(todos) = N + 1
    /\ file # before

\* C8: done (undo) with ids all within 1..N sets (clears) the done flag of
\* every item referenced and changes no other flag, no name, no position
\* and not the length; the id N is accepted.
C8_MarkOnlyReferenced ==
    (/\ StoreLoaded
     /\ Command \in {"DONE", "UNDO"}
     /\ AllIdsValid)
    => LET loaded == Loaded
           referenced == IdSet
       IN  /\ outcome \in {"ok", "write_error"}
           /\ (env = "ok" => outcome = "ok")
           /\ Len(todos) = Len(loaded)
           /\ \A p \in 1..Len(loaded) :
                  /\ todos[p].name = loaded[p].name
                  /\ todos[p].done = (IF p \in referenced THEN Command = "DONE"
                                      ELSE loaded[p].done)

\* C8 witness: done of the last id N alone on a store of two items or
\* more, changing that item and leaving a done item before it.
C8_Witness ==
    /\ StoreLoaded
    /\ Command = "DONE"
    /\ AllIdsValid
    /\ N >= 2
    /\ IdSet = {N}
    /\ ~Loaded[N].done
    /\ Loaded[1].done
    /\ outcome = "ok"
    /\ todos[N].done
    /\ todos[1].done

\* C9: every failure puts its diagnostic on the error stream and nothing on
\* the standard stream; the list is on the standard stream on success.
C9_FailuresOnErrorStreamOnly ==
    /\ outcome \in Failures => stderr # <<>> /\ stdout = <<>>
    /\ outcome \in {"ok", "listed"} => ListPrinted

\* C10: after a successful add, done, undo or remove, whatever the names
\* added, the file parses and parses to the store the run wrote.
C10_FileStaysParseable ==
    outcome = "ok"
    => (/\ parse_todos(file, FALSE).err = ""
        /\ parse_todos(file, FALSE).todos = todos)

=============================================================================
